---- MODULE Spec2Model ----
(***************************************************************************)
(* Behaviour scripts of the portfolio page (script.js and its sibling      *)
(* variant): the startup sequence init() and the reveal-on-scroll engine   *)
(* setupScrollAnimations() with the IntersectionObserver it drives.        *)
(*                                                                         *)
(* Times are in tenths of a second, visible ratios in percent.  The        *)
(* data-animation tags of the page are taken to be valid class tokens      *)
(* (classList.add rejects tokens with white space).  The custom cursor    *)
(* and the contact form are modelled with the frames the host schedules    *)
(* and the values the visitor types.                                       *)
(***************************************************************************)
EXTENDS Integers, Sequences, FiniteSets

\* ------------------------------------------------------------------ bounds
MaxElems == 3
MaxSecs == 2
MaxBatch == 2
\* longest string passed to hexToRgb
MaxHexLen == 7
\* largest pointer coordinate
MaxCoord == 1
\* animation frame requests the host serves during one page load
MaxFrames == 3
\* longest value typed into the email field
MaxEmailLen == 5
\* longest value typed into the name and message fields
MaxTextLen == 1

\* ------------------------------------------------------- program constants
\* observerOptions.threshold = 0.1, in percent
Threshold == 10
\* a visible ratio the host may report that is below / above the threshold
LowRatio == Threshold \div 2
HighRatio == Threshold * 5
\* animationDelay not set
Unset == 0 - 1

Hidden == "animate-initially-hidden"
DefaultAnimation == "animate-fade-in-up"
CustomAnimation == "animate-zoom-in"
NoTag == ""

Variants == {"script", "part000"}
Elems == 1..MaxElems
\* the element the page attaches and detaches after load: the first of the
\* document, so that every later index of its section shifts
Dynamic == {1}
Secs == 1..MaxSecs
NoSec == 0

\* the page elements the routines look up and may not find (the theme toggle
\* and the watched sections have variables of their own)
PageElements ==
    {"sunIcon", "moonIcon", "navToggle", "navLinks", "customCursor",
     "contactForm", "techStack", "repoList"}

\* the characters strings are made of: the hash sign, a digit, a lower-case
\* and an upper-case hexadecimal letter, a letter that is no digit
Chars == {"#", "1", "a", "F", "g"}
\* the values that are not strings
NonStrings == {"undefined", "null", "number", "object"}

VARIABLES
    variant,        \* which of the two files is loaded
    hasIO,          \* the host defines IntersectionObserver
    storageThrows,  \* localStorage.getItem raises (storage blocked)
    bodyCached,     \* document.body was non-null when DOM was built
    hasThemeToggle, \* the page holds the theme toggle element
    storedTheme,    \* localStorage 'theme': "null", "light-mode" or "dark-mode"
    bodyLight,      \* the body carries the class light-mode
    themeControl,   \* what the toggle shows: "unset", "dark" or "light"
    listeners,      \* the setup routines whose handlers are registered
    nSec,           \* DOM.sections = sections 1..nSec, in document order
    secParent,      \* enclosing watched section of a section, or NoSec
    home,           \* nearest enclosing watched section of an element
    tag,            \* el.dataset.animation (NoTag when absent)
    inDom,          \* elements currently attached to the document
    classList,      \* el.classList
    animationDelay, \* el.style.animationDelay, Unset or tenths of a second
    phase,          \* "loading", then "ready" or "failed" once init() ran
    ran,            \* the setup routines init() entered, in order
    initError,      \* the error that left init(), or "none"
    observerCreated,\* new IntersectionObserver(...) returned
    observed,       \* the observer's observation targets
    prevState,      \* per target, the state of its last reported entry
    setupQuery,     \* history: what the query returned at setup
    revealQuery,    \* history: what the query returned at each reveal
    duplicated,     \* history: the first section to get a second qualifying entry
    lateEffect,     \* history: a non-first qualifying entry changed an element
    spared,         \* history: a section passed over by the last batch that revealed another
    belowActed,     \* history: an entry below threshold changed an element or unobserved
    transitions,    \* history: per element, the entries that changed it (up to 2)
    revealedBy,     \* history: per element, the section whose entry first changed it
    unobserveCalls, \* history: per section, the calls of observer.unobserve (up to 2)
    releases,       \* history: per section, the calls that ended an observation
    revealDom,      \* history: per section, the attached elements at its first reveal
    present,        \* the optional page elements the document holds
    navLinksOpen,   \* #navLinks carries the class open
    navToggleOpen,  \* #navToggle carries the class open
    ariaExpanded,   \* aria-expanded of #navToggle is "true"
    bodyNoScroll,   \* the body carries the class no-scroll
    scrolledLast,   \* history: "closed" or "idle" when the last click scrolled to the
                    \* target of an anchor with the menu open or not, else "no"
    lastToggle,     \* history: the last theme toggle since the page loaded
    expectLight,    \* history: the theme shown when the page was left
    hexInput,       \* the argument of a call of hexToRgb
    hexOutput,      \* what the call returned or raised
    cursorX,        \* clientX of the last mousemove (0 before any)
    cursorY,        \* clientY of the last mousemove (0 before any)
    rafId,          \* the handle of the frame requested, NoFrame for null
    frameCallbacks, \* the host's list of animation frame callbacks, by handle
    frameHandles,   \* the host's animation frame callback identifier
    transform,      \* style.transform of the custom cursor
    pointerAt,      \* history: where the host last reported the pointer
    movesPending,   \* history: the mousemoves since the last frame callback (up to 2)
    skipped,        \* history: the last frame callback found more than one mousemove
    formFields,     \* the values of the contact form's controls
    defaultPrevented,\* the last submit event had preventDefault called
    formOutcome     \* history: what the handler did with the last submit,
                    \* "none" when the last event was not a submit

hostVars == <<variant, hasIO, storageThrows, bodyCached, hasThemeToggle>>
domVars == <<nSec, secParent, home, tag>>
elemVars == <<classList, animationDelay>>
initVars == <<phase, ran, initError>>
themeVars == <<storedTheme, bodyLight, themeControl, listeners>>
observerVars == <<observerCreated, observed, prevState>>
historyVars == <<setupQuery, revealQuery, duplicated, lateEffect, spared,
                 belowActed, transitions, revealedBy, unobserveCalls,
                 releases, revealDom>>
menuVars == <<navLinksOpen, navToggleOpen, ariaExpanded, bodyNoScroll,
              scrolledLast>>
toggleVars == <<lastToggle, expectLight>>
hexVars == <<hexInput, hexOutput>>
cursorVars == <<cursorX, cursorY, rafId, frameCallbacks, frameHandles,
                transform, pointerAt, movesPending, skipped>>
formVars == <<formFields, defaultPrevented, formOutcome>>
pageVars == <<present, menuVars, toggleVars, hexVars, cursorVars, formVars>>
vars == <<hostVars, domVars, inDom, elemVars, initVars, themeVars,
          observerVars, historyVars, pageVars>>

\* ------------------------------------------------------------ the document
Sections == 1..nSec

\* s is el's section or encloses it
RECURSIVE Encloses(_, _)
Encloses(s, t) ==
    IF t = NoSec THEN FALSE
    ELSE IF t = s THEN TRUE
    ELSE Encloses(s, secParent[t])

\* the query run on the whole document instead of the section
DocumentQuerySelectorAll(s) ==
    SelectSeq([i \in 1..MaxElems |-> i], LAMBDA e : inDom[e] /\ home[e] # NoSec)

\* section.querySelectorAll(selector): the attached animatable descendants
\* of s, in document order
QuerySelectorAll(s) ==
    SelectSeq([i \in 1..MaxElems |-> i], LAMBDA e : inDom[e] /\ Encloses(s, home[e]))

\* the list found at setup used again in place of a new query
CachedQuery(s) == setupQuery[s]

\* entry.target.querySelectorAll(selector): the query run again at reveal
TargetQuerySelectorAll(s) == QuerySelectorAll(s)

Range(q) == {q[i] : i \in 1..Len(q)}
IndexOf(q, e) == CHOOSE i \in 1..Len(q) : q[i] = e

\* ------------------------------------------------------------- hexToRgb
\* a value passed to hexToRgb: a string, or a value of another type
StringValue(cs) == [kind |-> "string", chars |-> cs]
OtherValue(k) == [kind |-> k, chars |-> <<>>]
HexInputs ==
    {StringValue(cs) : cs \in UNION {[1..n -> Chars] : n \in 0..MaxHexLen}}
        \cup {OtherValue(k) : k \in NonStrings}

Returned(cs) == [raised |-> "none", value |-> cs]
Raised(err) == [raised |-> err, value |-> <<>>]
NotCalled == Returned(<<>>)
Fallback == <<"0", ",", "0", ",", "0">>

\* !hex: undefined, null and the empty string are falsy (a number may be
\* zero or not, an object is truthy; both fail the type test next)
Falsy(hex) ==
    \/ hex.kind \in {"undefined", "null"}
    \/ hex.kind = "string" /\ hex.chars = <<>>

\* the type test left out
AnyType(hex) == TRUE

\* typeof hex === 'string'
IsString(hex) == hex.kind = "string"

\* the test for the hash sign left out
IncludesAnything(hex, c) == TRUE

\* hex.includes(c); a value that is no string has no such method
Includes(hex, c) == \E i \in 1..Len(hex.chars) : hex.chars[i] = c

\* [a-f\d] under the flag i
HexDigits ==
    <<"0", "1", "2", "3", "4", "5", "6", "7", "8", "9",
      "a", "b", "c", "d", "e", "f">>
UpperDigits == <<"A", "B", "C", "D", "E", "F">>
IsHexDigit(c) == c \in Range(HexDigits) \cup Range(UpperDigits)

\* /^#?([a-f\d]{2})([a-f\d]{2})([a-f\d]{2})$/i.exec: the three groups,
\* or <<>> for null
RegexExec(cs) ==
    LET digits == IF cs # <<>> /\ cs[1] = "#" THEN Tail(cs) ELSE cs
    IN IF Len(digits) = 6 /\ \A i \in 1..6 : IsHexDigit(digits[i])
       THEN <<SubSeq(digits, 1, 2), SubSeq(digits, 3, 4), SubSeq(digits, 5, 6)>>
       ELSE <<>>

\* the value of a hexadecimal digit, in either case
DigitValue(c) ==
    IF c \in Range(HexDigits) THEN IndexOf(HexDigits, c) - 1
    ELSE IndexOf(UpperDigits, c) + 9

\* parseInt(group, 16)
ParseInt(group) == 16 * DigitValue(group[1]) + DigitValue(group[2])

\* a number in a template string: its decimal digits
RECURSIVE ToString(_)
ToString(n) ==
    IF n < 10 THEN <<HexDigits[n + 1]>>
    ELSE ToString(n \div 10) \o <<HexDigits[(n % 10) + 1]>>

hexToRgb(hex) ==
    IF Falsy(hex) THEN Returned(Fallback)
    ELSE IF ~IsString(hex) THEN Returned(Fallback)
    ELSE IF hex.kind # "string" THEN Raised("TypeError")
    ELSE IF ~Includes(hex, "#") THEN Returned(Fallback)
    ELSE LET result == RegexExec(hex.chars)
         IN IF result # <<>>
            THEN Returned(ToString(ParseInt(result[1])) \o <<",">>
                          \o ToString(ParseInt(result[2])) \o <<",">>
                          \o ToString(ParseInt(result[3])))
            ELSE Returned(Fallback)

\* updateRgbaVars passes a custom property of the root element to hexToRgb
CallHexToRgb ==
    /\ hexOutput = NotCalled
    /\ hexInput \in HexInputs
    /\ hexOutput' = hexToRgb(hexInput)
    /\ UNCHANGED <<hostVars, domVars, inDom, elemVars, initVars, themeVars,
                   observerVars, historyVars, present, menuVars, toggleVars,
                   hexInput, cursorVars, formVars>>

\* ------------------------------------------------------------ the startup
Routines(v) ==
    <<"cacheDOMElements", "updateRgbaVars", "setupSmoothScroll",
      "setupMobileMenu", "setupCustomCursor", "setupScrollAnimations",
      "setupThemeToggle", "setupThemeObserver", "setupFormValidation">>
    \o (IF v = "part000" THEN <<"setupTechStackSlider", "fetchGitHubRepos">>
        ELSE <<>>)

\* the guard left out
GuardDropped == FALSE

\* if (!DOM.sections || DOM.sections.length === 0) return;
NothingToWatch == nSec = 0

\* the error a setup routine lets escape, or "none"
RoutineError(r) ==
    CASE r = "setupScrollAnimations" ->
            IF ~NothingToWatch /\ ~hasIO THEN "ReferenceError" ELSE "none"
      [] r = "setupThemeToggle" ->
            IF variant = "part000" /\ hasThemeToggle
            THEN (IF storageThrows THEN "SecurityError"
                  ELSE IF ~bodyCached THEN "TypeError" ELSE "none")
            ELSE "none"
      [] r = "setupThemeObserver" ->
            IF ~bodyCached THEN "TypeError" ELSE "none"
      [] OTHER -> "none"

\* init() calls the routines in order; an escaping error ends it
RECURSIVE Attempted(_)
Attempted(rs) ==
    IF rs = <<>> THEN <<>>
    ELSE IF RoutineError(Head(rs)) # "none" THEN <<Head(rs)>>
    ELSE <<Head(rs)>> \o Attempted(Tail(rs))

EscapedError(rs) ==
    LET done == Attempted(rs)
    IN IF done = <<>> THEN "none" ELSE RoutineError(done[Len(done)])

\* classList.toggle(token) in place of add
ToggleClass(cl, c) == IF c \in cl THEN cl \ {c} ELSE cl \cup {c}

\* el.className = token in place of add
SetClassName(cl, c) == {c}

\* classList.add(token)
AddClass(cl, c) == cl \cup {c}

\* the section observed without its descendants being flagged
ObserveUnflagged(st, s) ==
    [cls |-> st.cls,
     obs |-> st.obs \cup {s},
     found |-> [st.found EXCEPT ![s] = QuerySelectorAll(s)]]

\* DOM.sections.forEach: flag the descendants of the section, then observe it
SetupSection(st, s) ==
    LET els == QuerySelectorAll(s)
    IN [cls |-> [e \in Elems |-> IF e \in Range(els)
                                 THEN AddClass(st.cls[e], Hidden)
                                 ELSE st.cls[e]],
        obs |-> st.obs \cup {s},
        found |-> [st.found EXCEPT ![s] = els]]

RECURSIVE SetupSections(_, _)
SetupSections(st, ss) ==
    IF ss = <<>> THEN st
    ELSE SetupSections(SetupSection(st, Head(ss)), Tail(ss))

\* setupThemeToggle: the saved preference applied to the body and the
\* toggle, and whether its handler got registered
ThemeToggleSetup ==
    LET asBefore == [light |-> bodyLight, control |-> themeControl,
                     listening |-> FALSE]
        isLightMode == storedTheme = "light-mode"
        icons == {"sunIcon", "moonIcon"} \cap present # {}
    IN IF RoutineError("setupScrollAnimations") # "none" THEN asBefore
       ELSE IF ~hasThemeToggle \/ storageThrows THEN asBefore
       ELSE IF variant = "script"
       THEN (IF ~isLightMode
             THEN [light |-> bodyLight,
                   control |-> IF icons THEN "dark" ELSE themeControl,
                   listening |-> TRUE]
             ELSE IF bodyCached
             THEN [light |-> TRUE,
                   control |-> IF icons THEN "light" ELSE themeControl,
                   listening |-> TRUE]
             ELSE asBefore)
       ELSE (IF bodyCached
             THEN [light |-> isLightMode,
                   control |-> IF isLightMode THEN "light" ELSE "dark",
                   listening |-> TRUE]
             ELSE asBefore)

\* the page elements a routine returns early without
Needs(r) ==
    CASE r = "setupMobileMenu" -> {"navToggle", "navLinks"}
      [] r = "setupCustomCursor" -> {"customCursor"}
      [] r = "setupFormValidation" -> {"contactForm"}
      [] r = "setupTechStackSlider" -> {"techStack"}
      [] r = "fetchGitHubRepos" -> {"repoList"}
      [] OTHER -> {}

\* the routines that set their feature up: they find their elements and
\* run to their end, registering a handler or starting their work
Registered(done) ==
    {r \in Range(done) :
        /\ RoutineError(r) = "none"
        /\ Needs(r) \subseteq present
        /\ \/ r \in {"setupSmoothScroll", "setupMobileMenu", "setupCustomCursor",
                      "setupThemeObserver", "setupFormValidation",
                      "setupTechStackSlider", "fetchGitHubRepos"}
           \/ r = "setupThemeToggle" /\ ThemeToggleSetup.listening}

init ==
    /\ phase = "loading"
    /\ bodyLight' = ThemeToggleSetup.light
    /\ themeControl' = ThemeToggleSetup.control
    /\ listeners' = Registered(Attempted(Routines(variant)))
    /\ UNCHANGED storedTheme
    /\ LET rs == Routines(variant)
           st == SetupSections([cls |-> classList, obs |-> {},
                                found |-> setupQuery],
                               [i \in 1..nSec |-> i])
       IN /\ ran' = Attempted(rs)
          /\ initError' = EscapedError(rs)
          /\ phase' = IF EscapedError(rs) = "none" THEN "ready" ELSE "failed"
          /\ IF ~NothingToWatch /\ hasIO
             THEN /\ observerCreated' = TRUE
                  /\ classList' = st.cls
                  /\ observed' = st.obs
                  /\ setupQuery' = st.found
             ELSE UNCHANGED <<observerCreated, classList, observed, setupQuery>>
    /\ UNCHANGED <<hostVars, domVars, inDom, animationDelay,
                   prevState, revealQuery, duplicated, lateEffect, spared,
                   belowActed, transitions, revealedBy, unobserveCalls,
                   releases, revealDom, pageVars>>

\* ------------------------------------------------- the intersection watcher
\* index of the first threshold greater than the ratio (thresholds = [0.1])
ThresholdIndex(ratio) == IF ratio >= Threshold THEN 1 ELSE 0

\* what the host can report of a target: out of view, in view below the
\* first threshold (isIntersecting is set for any overlap), in view above it.
\* Nothing reads the ratio of an entry that is not intersecting.
EntryStates ==
    {[isIntersecting |-> FALSE, ratio |-> 0],
     [isIntersecting |-> TRUE, ratio |-> LowRatio],
     [isIntersecting |-> TRUE, ratio |-> HighRatio]}

NeverReported == [isIntersecting |-> FALSE, thresholdIndex |-> 0 - 1]
Reported(x) ==
    [isIntersecting |-> x.isIntersecting, thresholdIndex |-> ThresholdIndex(x.ratio)]

\* the unobserve call left out
KeepObserving(obs, s) == obs

\* observer.unobserve(target)
Unobserve(obs, s) == obs \ {s}

\* if (!entry.isIntersecting) return;
IsQualifying(entry) == entry.isIntersecting

\* the tag of the element ignored
AlwaysDefault(e) == DefaultAnimation

\* el.dataset.animation || 'animate-fade-in-up'
AnimationType(e) == IF tag[e] # NoTag THEN tag[e] ELSE DefaultAnimation

\* index * 0.1 (script.js), index * 0.5 (the other file), in tenths
StaggerStep(v) == IF v = "script" THEN 1 ELSE 5
\* a one-based index
DelayOneBased(index) == (index + 1) * StaggerStep(variant)
DelayOf(index) == index * StaggerStep(variant)

\* the callback's body for one entry
OnEntry(st, entry) ==
    IF ~IsQualifying(entry) THEN st
    ELSE
      LET s == entry.target
          els == TargetQuerySelectorAll(s)
          cls2 == [e \in Elems |-> IF e \in Range(els)
                                   THEN AddClass(st.cls[e], AnimationType(e))
                                   ELSE st.cls[e]]
          delay2 == [e \in Elems |-> IF e \in Range(els)
                                     THEN DelayOf(IndexOf(els, e) - 1)
                                     ELSE st.delay[e]]
      IN [cls |-> cls2,
          delay |-> delay2,
          obs |-> Unobserve(st.obs, s),
          rq |-> IF st.rq[s] = <<>> THEN [st.rq EXCEPT ![s] = <<els>>]
                 ELSE st.rq,
          dup |-> IF st.rq[s] # <<>> /\ st.dup = NoSec THEN s ELSE st.dup,
          late |-> IF st.rq[s] # <<>> /\ (cls2 # st.cls \/ delay2 # st.delay)
                   THEN st.late \cup {s} ELSE st.late,
          below |-> \/ st.below
                    \/ /\ entry.ratio < Threshold
                       /\ (cls2 # st.cls \/ delay2 # st.delay \/ s \in st.obs),
          trans |-> [e \in Elems |->
                        IF (cls2[e] # st.cls[e] \/ delay2[e] # st.delay[e])
                           /\ st.trans[e] < 2
                        THEN st.trans[e] + 1 ELSE st.trans[e]],
          by |-> [e \in Elems |->
                     IF (cls2[e] # st.cls[e] \/ delay2[e] # st.delay[e])
                        /\ st.by[e] = NoSec
                     THEN s ELSE st.by[e]],
          calls |-> [st.calls EXCEPT ![s] = IF @ < 2 THEN @ + 1 ELSE @],
          rel |-> IF s \in st.obs /\ s \notin Unobserve(st.obs, s)
                  THEN [st.rel EXCEPT ![s] = IF @ < 2 THEN @ + 1 ELSE @]
                  ELSE st.rel]

\* entries.forEach
RECURSIVE OnEntries(_, _)
OnEntries(st, entries) ==
    IF entries = <<>> THEN st
    ELSE OnEntries(OnEntry(st, Head(entries)), Tail(entries))

\* the state last reported of a target: within the batch so far, else
\* in an earlier batch
RECURSIVE LastReported(_, _)
LastReported(batch, s) ==
    IF batch = <<>> THEN prevState[s]
    ELSE IF batch[Len(batch)].target = s THEN Reported(batch[Len(batch)])
    ELSE LastReported(SubSeq(batch, 1, Len(batch) - 1), s)

\* an entry for a target under observation
Entries ==
    {[target |-> s, isIntersecting |-> x.isIntersecting, ratio |-> x.ratio] :
        s \in observed, x \in EntryStates}

\* the host queues an entry for a target only when its state changed
\* since the entry before
Changing(batch, entry) == Reported(entry) # LastReported(batch, entry.target)

\* the batches of up to n entries the host can deliver: the entries queued
\* since the last callback
RECURSIVE BatchesUpTo(_)
BatchesUpTo(n) ==
    IF n = 0 THEN {<<>>}
    ELSE LET shorter == BatchesUpTo(n - 1)
         IN shorter \cup {Append(b, x) : <<b, x>> \in
                             {bx \in shorter \X Entries :
                                 Len(bx[1]) = n - 1 /\ Changing(bx[1], bx[2])}}
Batches == BatchesUpTo(MaxBatch) \ {<<>>}

\* the host takes the queued entries and invokes the callback with them
IntersectionCallback(batch) ==
    /\ \E st \in {OnEntries([cls |-> classList, delay |-> animationDelay,
                              obs |-> observed, rq |-> revealQuery,
                              dup |-> duplicated, late |-> lateEffect,
                              below |-> belowActed,
                              trans |-> transitions, by |-> revealedBy,
                              calls |-> unobserveCalls, rel |-> releases],
                             batch)} :
       LET hit == {batch[i].target : i \in {j \in 1..Len(batch) : IsQualifying(batch[j])}}
           all == {batch[i].target : i \in 1..Len(batch)}
       IN /\ classList' = st.cls
          /\ animationDelay' = st.delay
          /\ observed' = st.obs
          /\ revealQuery' = st.rq
          /\ duplicated' = st.dup
          /\ lateEffect' = st.late
          /\ belowActed' = st.below
          /\ transitions' = st.trans
          /\ revealedBy' = st.by
          /\ unobserveCalls' = st.calls
          /\ releases' = st.rel
          /\ revealDom' = [s \in Secs |->
                              IF revealQuery[s] = <<>> /\ st.rq[s] # <<>>
                              THEN inDom ELSE revealDom[s]]
          /\ spared' = IF hit # {} /\ all \ hit # {}
                       THEN CHOOSE s \in all \ hit : \A t \in all \ hit : s <= t
                       ELSE spared
          /\ prevState' = [s \in Secs |-> IF s \in st.obs THEN LastReported(batch, s)
                                          ELSE NeverReported]
    /\ UNCHANGED <<hostVars, domVars, inDom, initVars, themeVars,
                   observerCreated, setupQuery, pageVars>>

\* the page attaches an animatable element (repoListContainer.appendChild)
DomInsert(e) ==
    /\ phase # "loading"
    /\ ~inDom[e]
    /\ inDom' = [inDom EXCEPT ![e] = TRUE]
    /\ UNCHANGED <<hostVars, domVars, elemVars, initVars, themeVars,
                   observerVars, historyVars, pageVars>>

\* the page detaches an element (repoListContainer.innerHTML = '')
DomRemove(e) ==
    /\ phase # "loading"
    /\ inDom[e]
    /\ inDom' = [inDom EXCEPT ![e] = FALSE]
    /\ UNCHANGED <<hostVars, domVars, elemVars, initVars, themeVars,
                   observerVars, historyVars, pageVars>>

\* ------------------------------------------------------- the mobile menu
MenuState ==
    [links |-> navLinksOpen, toggle |-> navToggleOpen, aria |-> ariaExpanded,
     noScroll |-> bodyNoScroll]

\* the body left as it is
CloseLinksOnly(m) ==
    IF {"navLinks", "navToggle"} \subseteq present /\ m.links
    THEN [links |-> FALSE, toggle |-> FALSE, aria |-> FALSE,
          noScroll |-> m.noScroll]
    ELSE m

\* closeMobileMenu (DOM.body.classList raises when the body was not cached,
\* after the three other updates)
CloseMobileMenu(m) ==
    IF {"navLinks", "navToggle"} \subseteq present /\ m.links
    THEN [links |-> FALSE, toggle |-> FALSE, aria |-> FALSE,
          noScroll |-> IF bodyCached THEN FALSE ELSE m.noScroll]
    ELSE m

\* the click handler of #navToggle; its try block swallows the error of
\* DOM.body.classList when the body was not cached
ToggleMobileMenu(m) ==
    LET isOpen == ~m.links
    IN [links |-> isOpen, toggle |-> ~m.toggle, aria |-> isOpen,
        noScroll |-> IF bodyCached THEN ~m.noScroll ELSE m.noScroll]

SetMenu(m) ==
    /\ navLinksOpen' = m.links
    /\ navToggleOpen' = m.toggle
    /\ ariaExpanded' = m.aria
    /\ bodyNoScroll' = m.noScroll

\* a click on #navToggle
NavToggleClick ==
    /\ phase # "loading"
    /\ "setupMobileMenu" \in listeners
    /\ SetMenu(ToggleMobileMenu(MenuState))
    /\ scrolledLast' = "no"
    /\ UNCHANGED <<hostVars, domVars, inDom, elemVars, initVars, themeVars,
                   observerVars, historyVars, present, toggleVars, hexVars,
                   cursorVars, formVars>>

\* what a click in the document can hit: no anchor with a fragment href, an
\* anchor to "#", to a fragment without element, to an element of the page
AnchorClicks == {"other", "hash", "missing", "found"}

\* the delegated click handler of setupSmoothScroll
AnchorClick(k) ==
    /\ phase # "loading"
    /\ "setupSmoothScroll" \in listeners
    /\ IF k = "found"
       THEN /\ SetMenu(CloseMobileMenu(MenuState))
            /\ scrolledLast' = IF navLinksOpen THEN "closed" ELSE "idle"
       ELSE /\ SetMenu(MenuState)
            /\ scrolledLast' = "no"
    /\ UNCHANGED <<hostVars, domVars, inDom, elemVars, initVars, themeVars,
                   observerVars, historyVars, present, toggleVars, hexVars,
                   cursorVars, formVars>>

\* ------------------------------------------------------ the custom cursor
\* let rafId = null; the host's handles are positive
NoFrame == 0
Coords == 0..MaxCoord
NoTransform == [fn |-> "none", x |-> 0, y |-> 0]
\* `translate(${cursorX}px, ${cursorY}px)`
Translate(x, y) == [fn |-> "translate", x |-> x, y |-> y]

\* a frame requested for every mousemove
AlwaysRequest(id) == TRUE

\* !rafId
NoFramePending(id) == id = NoFrame

\* the mousemove handler of setupCustomCursor; requestAnimationFrame adds
\* the callback to the host's list and returns the next handle
MouseMove(x, y) ==
    /\ phase # "loading"
    /\ "setupCustomCursor" \in listeners
    /\ cursorX' = x
    /\ cursorY' = y
    /\ pointerAt' = <<x, y>>
    /\ movesPending' = IF movesPending < 2 THEN movesPending + 1 ELSE 2
    /\ IF NoFramePending(rafId)
       THEN /\ frameHandles < MaxFrames
            /\ frameHandles' = frameHandles + 1
            /\ rafId' = frameHandles + 1
            /\ frameCallbacks' = frameCallbacks \cup {frameHandles + 1}
       ELSE UNCHANGED <<rafId, frameCallbacks, frameHandles>>
    /\ UNCHANGED <<hostVars, domVars, inDom, elemVars, initVars, themeVars,
                   observerVars, historyVars, present, menuVars, toggleVars,
                   hexVars, transform, skipped, formVars>>

\* the host runs a callback of its list before a repaint: updateCursor
AnimationFrame(h) ==
    /\ h \in frameCallbacks
    /\ frameCallbacks' = frameCallbacks \ {h}
    /\ transform' = Translate(cursorX, cursorY)
    /\ rafId' = NoFrame
    /\ skipped' = (movesPending >= 2)
    /\ movesPending' = 0
    /\ UNCHANGED <<hostVars, domVars, inDom, elemVars, initVars, themeVars,
                   observerVars, historyVars, present, menuVars, toggleVars,
                   hexVars, cursorX, cursorY, frameHandles, pointerAt,
                   formVars>>

\* ------------------------------------------------------- the contact form
\* the characters typed: a letter, the at sign, the dot, white space
EmailChars == {"a", "@", ".", " "}
\* Object.fromEntries(formData): a control that the form lacks gives
\* undefined, the others the string typed
FormFieldNames == {"name", "email", "message"}
MaxLenOf(field) == IF field = "email" THEN MaxEmailLen ELSE MaxTextLen
EmptyForm == [field \in FormFieldNames |-> StringValue(<<>>)]
FormsOfPage ==
    [FormFieldNames -> {StringValue(<<>>), OtherValue("undefined")}]
\* a control of the form has no value attribute: reset() empties it
ResetValue(v) == IF v.kind = "string" THEN StringValue(<<>>) ELSE v
ResetForm(f) == [field \in FormFieldNames |-> ResetValue(f[field])]

\* a token of a regular expression: a character class, repeated or not
InClass(cls, c) ==
    CASE cls = "notSpaceAt" -> c \notin {" ", "@"}
      [] cls = "at" -> c = "@"
      [] cls = "dot" -> c = "."
Token(cls, plus) == [cls |-> cls, plus |-> plus]

\* the pattern without the dot and what follows it
EmailRegexNoDot == <<Token("notSpaceAt", TRUE), Token("at", FALSE),
                     Token("notSpaceAt", TRUE)>>

\* /^[^\s@]+@[^\s@]+\.[^\s@]+$/
EmailRegex == <<Token("notSpaceAt", TRUE), Token("at", FALSE),
                Token("notSpaceAt", TRUE), Token("dot", FALSE),
                Token("notSpaceAt", TRUE)>>

\* regex.test(cs) for an anchored pattern: the tokens from pi on match the
\* characters from ci on, up to the end
RECURSIVE MatchFrom(_, _, _, _)
MatchFrom(regex, pi, cs, ci) ==
    IF pi > Len(regex) THEN ci > Len(cs)
    ELSE IF ci > Len(cs) THEN FALSE
    ELSE /\ InClass(regex[pi].cls, cs[ci])
         /\ \/ MatchFrom(regex, pi + 1, cs, ci + 1)
            \/ regex[pi].plus /\ MatchFrom(regex, pi, cs, ci + 1)
RegexTest(regex, cs) == MatchFrom(regex, 1, cs, 1)

\* the submit handler of setupFormValidation: the alert shown and whether
\* the form is reset
SubmitOutcome(data) ==
    IF Falsy(data.name) \/ Falsy(data.email) \/ Falsy(data.message)
    THEN "fill in all fields"
    ELSE IF ~RegexTest(EmailRegex, data.email.chars)
    THEN "enter a valid email"
    ELSE "thank you"

\* the visitor types a character into a control of the form
TypeInto(field, c) ==
    /\ phase # "loading"
    /\ "contactForm" \in present
    /\ formFields[field].kind = "string"
    /\ Len(formFields[field].chars) < MaxLenOf(field)
    /\ formFields' = [formFields EXCEPT
                         ![field] = StringValue(Append(@.chars, c))]
    /\ defaultPrevented' = FALSE
    /\ formOutcome' = "none"
    /\ UNCHANGED <<hostVars, domVars, inDom, elemVars, initVars, themeVars,
                   observerVars, historyVars, present, menuVars, toggleVars,
                   hexVars, cursorVars>>

\* the visitor erases the last character of a control
Erase(field) ==
    /\ phase # "loading"
    /\ "contactForm" \in present
    /\ formFields[field].kind = "string"
    /\ formFields[field].chars # <<>>
    /\ formFields' = [formFields EXCEPT
                         ![field] = StringValue(SubSeq(@.chars, 1, Len(@.chars) - 1))]
    /\ defaultPrevented' = FALSE
    /\ formOutcome' = "none"
    /\ UNCHANGED <<hostVars, domVars, inDom, elemVars, initVars, themeVars,
                   observerVars, historyVars, present, menuVars, toggleVars,
                   hexVars, cursorVars>>

\* a submit event of the contact form
Submit ==
    /\ phase # "loading"
    /\ "setupFormValidation" \in listeners
    /\ defaultPrevented' = TRUE
    /\ formOutcome' = SubmitOutcome(formFields)
    /\ formFields' = IF SubmitOutcome(formFields) = "thank you"
                     THEN ResetForm(formFields) ELSE formFields
    /\ UNCHANGED <<hostVars, domVars, inDom, elemVars, initVars, themeVars,
                   observerVars, historyVars, present, menuVars, toggleVars,
                   hexVars, cursorVars>>

\* ------------------------------------------------------ the theme toggle
\* no theme toggle since the page loaded
NoToggle == [before |-> "none", after |-> "none", stored |-> "none",
             escaped |-> "none"]
ThemeName(light) == IF light THEN "light" ELSE "dark"

\* the value computed from the state before the toggle
ThemeKeyBefore(isNowLightMode) ==
    IF isNowLightMode THEN "dark-mode" ELSE "light-mode"

\* isNowLightMode ? 'light-mode' : 'dark-mode'
ThemeKey(isNowLightMode) ==
    IF isNowLightMode THEN "light-mode" ELSE "dark-mode"

\* the click handler of #theme-toggle (script.js) or the change handler of
\* #theme-switch-checkbox (the other file); localStorage.setItem may raise
ThemeToggleClick(writeOk) ==
    /\ phase # "loading"
    /\ "setupThemeToggle" \in listeners
    /\ IF ~bodyCached
       THEN /\ lastToggle' = [before |-> ThemeName(bodyLight),
                              after |-> ThemeName(bodyLight),
                              stored |-> "no", escaped |-> "TypeError"]
            /\ UNCHANGED themeVars
       ELSE LET isNowLightMode ==
                    IF variant = "script" THEN ~bodyLight
                    ELSE themeControl # "light"
            IN /\ bodyLight' = isNowLightMode
               /\ storedTheme' = IF writeOk THEN ThemeKey(isNowLightMode)
                                 ELSE storedTheme
               /\ themeControl' =
                     IF variant = "script"
                     THEN (IF themeControl = "dark" THEN "light"
                           ELSE IF themeControl = "light" THEN "dark"
                           ELSE themeControl)
                     ELSE ThemeName(isNowLightMode)
               /\ lastToggle' = [before |-> ThemeName(bodyLight),
                                 after |-> ThemeName(isNowLightMode),
                                 stored |-> IF writeOk THEN "ok" ELSE "failed",
                                 escaped |-> "none"]
               /\ UNCHANGED listeners
    /\ UNCHANGED <<hostVars, domVars, inDom, elemVars, initVars,
                   observerVars, historyVars, present, menuVars, expectLight,
                   hexVars, cursorVars, formVars>>

\* the page is loaded again: a new document and a new run of the script,
\* on the same host with the same storage
Reload ==
    /\ phase # "loading"
    /\ expectLight' = IF lastToggle.stored = "ok" THEN ThemeName(bodyLight)
                      ELSE "none"
    /\ classList' = [e \in Elems |-> {}]
    /\ animationDelay' = [e \in Elems |-> Unset]
    /\ phase' = "loading"
    /\ ran' = <<>>
    /\ initError' = "none"
    /\ observerCreated' = FALSE
    /\ observed' = {}
    /\ prevState' = [s \in Secs |-> NeverReported]
    /\ setupQuery' = [s \in Secs |-> <<>>]
    /\ revealQuery' = [s \in Secs |-> <<>>]
    /\ duplicated' = NoSec
    /\ lateEffect' = {}
    /\ spared' = NoSec
    /\ belowActed' = FALSE
    /\ transitions' = [e \in Elems |-> 0]
    /\ revealedBy' = [e \in Elems |-> NoSec]
    /\ unobserveCalls' = [s \in Secs |-> 0]
    /\ releases' = [s \in Secs |-> 0]
    /\ revealDom' = [s \in Secs |-> [e \in Elems |-> FALSE]]
    /\ bodyLight' = FALSE
    /\ themeControl' = "unset"
    /\ listeners' = {}
    /\ navLinksOpen' = FALSE
    /\ navToggleOpen' = FALSE
    /\ ariaExpanded' = FALSE
    /\ bodyNoScroll' = FALSE
    /\ scrolledLast' = "no"
    /\ lastToggle' = NoToggle
    /\ cursorX' = 0
    /\ cursorY' = 0
    /\ rafId' = NoFrame
    /\ frameCallbacks' = {}
    /\ frameHandles' = 0
    /\ transform' = NoTransform
    /\ pointerAt' = <<0, 0>>
    /\ movesPending' = 0
    /\ skipped' = FALSE
    /\ formFields' = ResetForm(formFields)
    /\ defaultPrevented' = FALSE
    /\ formOutcome' = "none"
    /\ UNCHANGED <<hostVars, domVars, inDom, storedTheme, present, hexVars>>

\* ------------------------------------------------------- specifications
\* every optional element is in the page, which is loaded for the first
\* time, and hexToRgb is not under test
WholePage ==
    /\ present = PageElements
    /\ expectLight = "none"
    /\ hexInput = OtherValue("undefined")
    /\ hexOutput = NotCalled
    /\ formFields = EmptyForm

\* sections in document order; the elements of a section are contiguous
Ordered(h) == \A a, b \in Elems : a < b => h[a] <= h[b]

Fresh ==
    /\ classList = [e \in Elems |-> {}]
    /\ animationDelay = [e \in Elems |-> Unset]
    /\ phase = "loading"
    /\ ran = <<>>
    /\ initError = "none"
    /\ observerCreated = FALSE
    /\ observed = {}
    /\ prevState = [s \in Secs |-> NeverReported]
    /\ setupQuery = [s \in Secs |-> <<>>]
    /\ revealQuery = [s \in Secs |-> <<>>]
    /\ duplicated = NoSec
    /\ lateEffect = {}
    /\ spared = NoSec
    /\ belowActed = FALSE
    /\ transitions = [e \in Elems |-> 0]
    /\ revealedBy = [e \in Elems |-> NoSec]
    /\ unobserveCalls = [s \in Secs |-> 0]
    /\ releases = [s \in Secs |-> 0]
    /\ revealDom = [s \in Secs |-> [e \in Elems |-> FALSE]]
    /\ navLinksOpen = FALSE
    /\ navToggleOpen = FALSE
    /\ ariaExpanded = FALSE
    /\ bodyNoScroll = FALSE
    /\ scrolledLast = "no"
    /\ lastToggle = NoToggle
    /\ cursorX = 0
    /\ cursorY = 0
    /\ rafId = NoFrame
    /\ frameCallbacks = {}
    /\ frameHandles = 0
    /\ transform = NoTransform
    /\ pointerAt = <<0, 0>>
    /\ movesPending = 0
    /\ skipped = FALSE
    /\ defaultPrevented = FALSE
    /\ formOutcome = "none"
    /\ bodyLight = FALSE
    /\ themeControl = "unset"
    /\ listeners = {}

\* the pages considered: every second element carries a data-animation tag
\* or none does; the dynamic element may be detached when the page loads
Tagging ==
    {[e \in Elems |-> NoTag],
     [e \in Elems |-> IF e % 2 = 0 THEN CustomAnimation ELSE NoTag]}
Attached == {a \in [Elems -> BOOLEAN] : \A e \in Elems \ Dynamic : a[e]}

\* a healthy host and a page whose watched sections are top-level regions
Init ==
    /\ variant \in Variants
    /\ hasIO = TRUE
    /\ storageThrows = FALSE
    /\ bodyCached = TRUE
    /\ hasThemeToggle = TRUE
    /\ storedTheme = "null"
    /\ nSec = MaxSecs
    /\ secParent = [s \in Secs |-> NoSec]
    /\ home \in {h \in [Elems -> 1..nSec] : Ordered(h)}
    /\ tag \in Tagging
    /\ inDom \in Attached
    /\ Fresh
    /\ WholePage

Next ==
    \/ init
    \/ \E batch \in Batches : IntersectionCallback(batch)
    \/ \E e \in Dynamic : DomInsert(e)
    \/ \E e \in Dynamic : DomRemove(e)

Spec == Init /\ [][Next]_vars

\* any host (with or without the watcher capability, storage blocked or not,
\* body cached or not), any number of watched sections including none
InitStartup ==
    /\ variant \in Variants
    /\ hasIO \in BOOLEAN
    /\ storageThrows \in BOOLEAN
    /\ bodyCached \in BOOLEAN
    /\ hasThemeToggle \in BOOLEAN
    /\ storedTheme \in {"null", "light-mode", "dark-mode"}
    /\ nSec \in 0..MaxSecs
    /\ secParent = [s \in Secs |-> NoSec]
    /\ home = [e \in Elems |-> IF e < nSec THEN e ELSE nSec]
    /\ tag = [e \in Elems |-> NoTag]
    /\ inDom = [e \in Elems |-> e \notin Dynamic]
    /\ Fresh
    /\ WholePage

SpecStartup == InitStartup /\ [][init]_vars

\* a page where a watched section lies inside another one: the enclosing
\* section starts first, and the elements of a section are contiguous
Nesting == {p \in [Secs -> 0..MaxSecs] :
               /\ \A s \in Secs : p[s] < s
               /\ \E s \in Secs : p[s] # NoSec}
Contiguous(h) ==
    \A s \in Secs : \A a, b, c \in Elems :
        (a < b /\ b < c /\ Encloses(s, h[a]) /\ Encloses(s, h[c]))
            => Encloses(s, h[b])

InitNested ==
    /\ variant \in Variants
    /\ hasIO = TRUE
    /\ storageThrows = FALSE
    /\ bodyCached = TRUE
    /\ hasThemeToggle = TRUE
    /\ storedTheme = "null"
    /\ nSec = MaxSecs
    /\ secParent \in Nesting
    /\ home \in {h \in [Elems -> Secs] : Contiguous(h)}
    /\ tag \in Tagging
    /\ inDom \in Attached
    /\ Fresh
    /\ WholePage

SpecNested == InitNested /\ [][Next]_vars

\* any page on a host with or without the watcher and with or without
\* readable storage: each optional element present or absent, the theme
\* toggle present or absent, any number of watched sections
InitAbsent ==
    /\ variant \in Variants
    /\ hasIO \in BOOLEAN
    /\ storageThrows \in BOOLEAN
    /\ bodyCached = TRUE
    /\ hasThemeToggle \in BOOLEAN
    /\ storedTheme \in {"null", "light-mode"}
    /\ nSec \in 0..MaxSecs
    /\ secParent = [s \in Secs |-> NoSec]
    /\ home = [e \in Elems |-> IF e < nSec THEN e ELSE nSec]
    /\ tag = [e \in Elems |-> NoTag]
    /\ inDom = [e \in Elems |-> e \notin Dynamic]
    /\ Fresh
    /\ present \in SUBSET PageElements
    /\ expectLight = "none"
    /\ hexInput = OtherValue("undefined")
    /\ hexOutput = NotCalled
    /\ formFields = EmptyForm

SpecAbsent == InitAbsent /\ [][init]_vars

\* the visitor uses the menu, the anchors and the theme toggle and loads
\* the page again, on a host that may lack the watcher or readable storage
PagesUsed ==
    {PageElements, PageElements \ {"navToggle"},
     PageElements \ {"sunIcon", "moonIcon"}}
InitUI ==
    /\ variant \in Variants
    /\ hasIO \in BOOLEAN
    /\ storageThrows \in BOOLEAN
    /\ bodyCached = TRUE
    /\ hasThemeToggle \in BOOLEAN
    /\ storedTheme \in {"null", "light-mode", "dark-mode"}
    /\ nSec \in 0..MaxSecs
    /\ secParent = [s \in Secs |-> NoSec]
    /\ home = [e \in Elems |-> IF e < nSec THEN e ELSE nSec]
    /\ tag = [e \in Elems |-> NoTag]
    /\ inDom = [e \in Elems |-> e \notin Dynamic]
    /\ Fresh
    /\ present \in PagesUsed
    /\ expectLight = "none"
    /\ hexInput = OtherValue("undefined")
    /\ hexOutput = NotCalled
    /\ formFields = EmptyForm

NextUI ==
    \/ init
    \/ NavToggleClick
    \/ \E k \in AnchorClicks : AnchorClick(k)
    \/ \E writeOk \in BOOLEAN : ThemeToggleClick(writeOk)
    \/ Reload

SpecUI == InitUI /\ [][NextUI]_vars

\* the other file on a healthy host: the reveal engine at work while the
\* visitor uses the menu and the theme toggle and the repository list is
\* filled
InitPage ==
    /\ variant = "part000"
    /\ hasIO = TRUE
    /\ storageThrows = FALSE
    /\ bodyCached = TRUE
    /\ hasThemeToggle = TRUE
    /\ storedTheme = "null"
    /\ nSec = MaxSecs
    /\ secParent = [s \in Secs |-> NoSec]
    /\ home \in {h \in [Elems -> 1..nSec] : Ordered(h)}
    /\ tag = [e \in Elems |-> NoTag]
    /\ inDom \in Attached
    /\ Fresh
    /\ WholePage

NextPage ==
    \/ init
    \/ \E batch \in Batches : IntersectionCallback(batch)
    \/ \E e \in Dynamic : DomInsert(e)
    \/ \E e \in Dynamic : DomRemove(e)
    \/ NavToggleClick
    \/ \E k \in AnchorClicks : AnchorClick(k)
    \/ \E writeOk \in BOOLEAN : ThemeToggleClick(writeOk)

SpecPage == InitPage /\ [][NextPage]_vars

\* the pointer moves over the page while the host runs its frames
InitCursor ==
    /\ variant \in Variants
    /\ hasIO = TRUE
    /\ storageThrows = FALSE
    /\ bodyCached = TRUE
    /\ hasThemeToggle = TRUE
    /\ storedTheme = "null"
    /\ nSec = 0
    /\ secParent = [s \in Secs |-> NoSec]
    /\ home = [e \in Elems |-> NoSec]
    /\ tag = [e \in Elems |-> NoTag]
    /\ inDom = [e \in Elems |-> TRUE]
    /\ Fresh
    /\ WholePage

NextCursor ==
    \/ init
    \/ \E x, y \in Coords : MouseMove(x, y)
    \/ \E h \in 1..MaxFrames : AnimationFrame(h)

SpecCursor == InitCursor /\ [][NextCursor]_vars

\* while the page is shown the host runs every callback of its list at the
\* next repaint
SpecCursorLive ==
    SpecCursor /\ WF_vars(\E h \in 1..MaxFrames : AnimationFrame(h))

\* the visitor fills the contact form in and submits it; the form holds
\* each of the three controls or lacks it
InitForm ==
    /\ variant \in Variants
    /\ hasIO = TRUE
    /\ storageThrows = FALSE
    /\ bodyCached = TRUE
    /\ hasThemeToggle = TRUE
    /\ storedTheme = "null"
    /\ nSec = 0
    /\ secParent = [s \in Secs |-> NoSec]
    /\ home = [e \in Elems |-> NoSec]
    /\ tag = [e \in Elems |-> NoTag]
    /\ inDom = [e \in Elems |-> TRUE]
    /\ Fresh
    /\ present = PageElements
    /\ expectLight = "none"
    /\ hexInput = OtherValue("undefined")
    /\ hexOutput = NotCalled
    /\ formFields \in FormsOfPage

NextForm ==
    \/ init
    \/ \E field \in FormFieldNames, c \in EmailChars : TypeInto(field, c)
    \/ \E field \in FormFieldNames : Erase(field)
    \/ Submit

SpecForm == InitForm /\ [][NextForm]_vars

\* calls of hexToRgb on every value up to the length bound
InitHex ==
    /\ variant \in Variants
    /\ hasIO = TRUE
    /\ storageThrows = FALSE
    /\ bodyCached = TRUE
    /\ hasThemeToggle = TRUE
    /\ storedTheme = "null"
    /\ nSec = 0
    /\ secParent = [s \in Secs |-> NoSec]
    /\ home = [e \in Elems |-> NoSec]
    /\ tag = [e \in Elems |-> NoTag]
    /\ inDom = [e \in Elems |-> TRUE]
    /\ Fresh
    /\ present = PageElements
    /\ expectLight = "none"
    /\ hexInput \in HexInputs
    /\ hexOutput = NotCalled
    /\ formFields = EmptyForm

SpecHex == InitHex /\ [][CallHexToRgb]_vars

\* ------------------------------------------------------------ properties
AnimationNames(e) == classList[e] \ {Hidden}
Untouched(e) == AnimationNames(e) = {} /\ animationDelay[e] = Unset
Revealed(s) == revealQuery[s] # <<>>
RevealList(s) == revealQuery[s][1]

\* C1: of the qualifying (intersecting) reports the callback receives for a
\* section, only the first changes the class list or the animation delay of
\* any element; a later one, in the same batch or a later one, changes none.
C1_OnlyFirstReportActs == lateEffect = {}

\* two qualifying reports were processed for a section with descendants
C1_Witness ==
    \E s \in Secs : duplicated = s /\ Revealed(s) /\ Len(RevealList(s)) >= 2

\* C2: each descendant of a revealed section carries exactly one animation
\* name and one delay; the delay at zero-based position i of the list is
\* i * step (step 1 tenth in script.js, 5 tenths in the other file), so the
\* delays strictly increase in document order.
C2_StaggeredDelays ==
    \A s \in Secs : Revealed(s) =>
        LET q == RevealList(s)
            step == IF variant = "script" THEN 1 ELSE 5
        IN /\ \A i \in 1..Len(q) :
                /\ Cardinality(AnimationNames(q[i])) = 1
                /\ animationDelay[q[i]] = (i - 1) * step
           /\ \A i, j \in 1..Len(q) :
                i < j => animationDelay[q[i]] < animationDelay[q[j]]

\* a section with three descendants was revealed
C2_Witness ==
    \E s \in Secs : Revealed(s) /\ Len(RevealList(s)) >= 3

\* C3: a report for a section whose visible ratio is below the 10%
\* threshold changes no element and leaves the section under watch,
\* whatever its isIntersecting flag.
C3_BelowThresholdIsInert == ~belowActed

\* C4: the descendants of a watched section that has had no qualifying
\* report keep the hidden flag and have neither animation name nor delay,
\* and the section stays under watch, whatever other sections qualified.
C4_OnlyQualifyingSectionsAct ==
    \A s \in Sections : (observerCreated /\ ~Revealed(s)) =>
        /\ s \in observed
        /\ \A e \in Elems : home[e] = s =>
              /\ Untouched(e)
              /\ (e \in Range(setupQuery[s]) => Hidden \in classList[e])

\* a batch revealed one section and passed over another, which has
\* descendants and is still watched
C4_Witness ==
    \E s, t \in Secs :
        /\ s = spared /\ s \in observed /\ ~Revealed(s)
        /\ setupQuery[s] # <<>>
        /\ Revealed(t) /\ RevealList(t) # <<>>

\* C5: a qualifying report for a section with no matching descendant
\* unsubscribes the section (the callback has no raising path).
C5_EmptyRevealUnsubscribes ==
    \A s \in Secs : (Revealed(s) /\ RevealList(s) = <<>>) =>
        /\ s \notin observed
        /\ prevState[s] = NeverReported

\* a section without descendants was revealed
C5_Witness ==
    \E s \in Secs : Revealed(s) /\ RevealList(s) = <<>> /\ spared # s

\* C6: with no watched section, setupScrollAnimations creates no watcher,
\* changes no element and raises nothing: init goes on to the next routine.
C6_NothingToWatchIsNoOp ==
    (phase # "loading" /\ nSec = 0) =>
        /\ ~observerCreated
        /\ observed = {}
        /\ \A e \in Elems : classList[e] = {} /\ animationDelay[e] = Unset
        /\ Len(ran) > 6
        /\ ran[7] = "setupThemeToggle"

\* init ran on a page without watched sections, on a host without watcher
C6_Witness == phase # "loading" /\ nSec = 0 /\ ~hasIO

\* C7: on a host without the watcher capability and with a watched section,
\* setupScrollAnimations raises nothing and the startup sequence goes on.
C7_NoWatcherIsSilent ==
    (phase # "loading" /\ ~hasIO /\ nSec > 0) =>
        /\ initError # "ReferenceError"
        /\ Len(ran) > 6

\* C8: init attempts every routine of the startup sequence, whatever any
\* of them raises.
C8_EveryRoutineAttempted ==
    phase # "loading" => ran = Routines(variant)

\* C9: once a section is under watch, and so before any report can be
\* delivered, every descendant found at setup of every watched section
\* carries the hidden flag.
WatcherEngaged ==
    observed # {} \/ \E s \in Secs : Revealed(s) \/ prevState[s] # NeverReported
C9_HiddenBeforeAnyReport ==
    WatcherEngaged =>
        \A s \in Sections :
            /\ \A e \in Range(setupQuery[s]) : Hidden \in classList[e]
            /\ \A e \in Elems \ Dynamic : home[e] = s => Hidden \in classList[e]

\* the first callback ran, for a section with two descendants flagged at setup
C9_Witness ==
    \E s \in Secs :
        /\ Len(setupQuery[s]) >= 2
        /\ Revealed(s)
        /\ \A e \in Range(setupQuery[s]) : Hidden \in classList[e]

\* C10: every animatable element changes at most once, and the change is
\* made by the reveal of its nearest enclosing watched section.
C10_OneTransitionByNearestSection ==
    \A e \in Elems :
        /\ transitions[e] <= 1
        /\ revealedBy[e] # NoSec => revealedBy[e] = home[e]

\* C11 as stated: observer.unobserve is called exactly once for a section
\* that is revealed, and never for one that is not.
C11_UnobserveCalledOnce ==
    \A s \in Sections :
        unobserveCalls[s] = (IF Revealed(s) THEN 1 ELSE 0)

\* C11 as amended: the observation of a section is ended exactly once when
\* the section is revealed and never before, always by a call the callback
\* makes for a qualifying report of that section; unobserve is called once
\* per qualifying report processed, so a second qualifying report in the
\* same batch repeats the call without ending anything.
C11_ReleasedOnce ==
    \A s \in Sections :
        /\ releases[s] = (IF Revealed(s) THEN 1 ELSE 0)
        /\ unobserveCalls[s] >= releases[s]
        /\ (unobserveCalls[s] > 0) = Revealed(s)
        /\ observerCreated => ((s \in observed) = (releases[s] = 0))
        /\ (unobserveCalls[s] > 1) => (duplicated # NoSec)

\* unobserve was called twice for a section, in the batch that revealed it,
\* while another section is still observed
C11_Witness ==
    \E s, t \in Secs :
        /\ unobserveCalls[s] = 2 /\ releases[s] = 1 /\ s \notin observed
        /\ t \in observed /\ releases[t] = 0

\* C12: before setup no section is watched or revealed; after setup a
\* section is under watch exactly when it has not been revealed, in every
\* reachable state, so a revealed section is never watched or pending again.
C12_WatchedUntilRevealed ==
    /\ ~observerCreated => (observed = {} /\ \A s \in Secs : ~Revealed(s))
    /\ observerCreated =>
          \A s \in Sections : (s \in observed) = ~Revealed(s)

\* a revealed section had a further report queued for another section: one
\* section is revealed, the other is watched and has been reported
C12_Witness ==
    \E s, t \in Secs :
        /\ Revealed(s) /\ s \notin observed
        /\ t \in observed /\ ~Revealed(t) /\ prevState[t] # NeverReported

\* C16: every descendant of a revealed section carries its own tag as
\* animation name when the tag is not empty and the default name otherwise;
\* with no tags, three descendants and script.js's step of one tenth, all
\* three carry the default name and the delays 0, 1, 2 tenths in order.
C16_OwnTagOrDefault ==
    \A s \in Secs : Revealed(s) =>
        LET q == RevealList(s)
        IN /\ \A i \in 1..Len(q) :
                AnimationNames(q[i]) =
                    {IF tag[q[i]] = NoTag THEN DefaultAnimation ELSE tag[q[i]]}
           /\ (variant = "script" /\ Len(q) = 3
                  /\ \A i \in 1..3 : tag[q[i]] = NoTag)
               => /\ \A i \in 1..3 : AnimationNames(q[i]) = {DefaultAnimation}
                  /\ [i \in 1..3 |-> animationDelay[q[i]]] = <<0, 1, 2>>

\* the scenario: script.js, one section of three untagged descendants revealed
C16_Witness ==
    \E s \in Secs :
        /\ variant = "script" /\ Revealed(s) /\ Len(RevealList(s)) = 3
        /\ \A i \in 1..3 : tag[RevealList(s)[i]] = NoTag

\* a revealed descendant that carries a tag of its own
C16_TaggedWitness ==
    \E s \in Secs : Revealed(s) /\
        \E i \in 1..Len(RevealList(s)) : tag[RevealList(s)[i]] = CustomAnimation

\* C17: an element flagged hidden at setup carries the hidden flag in every
\* later state; once its section is revealed with the element still in it,
\* the element carries the hidden flag and its animation name.
C17_HiddenFlagKept ==
    \A s \in Sections : \A e \in Range(setupQuery[s]) :
        /\ Hidden \in classList[e]
        /\ (Revealed(s) /\ e \in Range(RevealList(s)))
              => (Hidden \in classList[e] /\ AnimationNames(e) # {})

\* an element flagged at setup whose section was revealed
C17_Witness ==
    \E s \in Secs : \E e \in Range(setupQuery[s]) :
        /\ Revealed(s) /\ e \in Range(RevealList(s))
        /\ Hidden \in classList[e] /\ AnimationNames(e) # {}

\* C18: the elements a reveal animates are the descendants attached when the
\* qualifying report is processed: each of them gets an animation name and
\* the delay of its position among them, one attached after setup gets them
\* without the hidden flag, and one detached by then gets neither.
AttachedAtReveal(s) == {e \in Elems : home[e] = s /\ revealDom[s][e]}
C18_QueryAtReveal ==
    \A s \in Secs : Revealed(s) =>
        \A e \in Elems : home[e] = s =>
            IF e \in AttachedAtReveal(s)
            THEN /\ AnimationNames(e) # {}
                 /\ animationDelay[e] =
                       (Cardinality({f \in AttachedAtReveal(s) : f < e}))
                           * (IF variant = "script" THEN 1 ELSE 5)
                 /\ e \notin Range(setupQuery[s]) => Hidden \notin classList[e]
            ELSE Untouched(e)

\* a section was revealed with an element attached since setup ahead of
\* another descendant
C18_Witness ==
    \E s \in Secs : \E e \in AttachedAtReveal(s) :
        /\ Revealed(s)
        /\ e \notin Range(setupQuery[s])
        /\ \E f \in AttachedAtReveal(s) : e < f

\* a section was revealed after an element flagged at setup was detached
C18_RemovedWitness ==
    \E s \in Secs : \E e \in Range(setupQuery[s]) :
        Revealed(s) /\ e \notin AttachedAtReveal(s) /\ RevealList(s) # <<>>

\* C15: hexToRgb raises for no input; for a string made of the hash sign and
\* exactly six hexadecimal digits of either case it returns the three bytes
\* in decimal, separated by commas; for every other input, "0,0,0".
SixDigitColour(hex) ==
    /\ hex.kind = "string"
    /\ Len(hex.chars) = 7
    /\ hex.chars[1] = "#"
    /\ \A i \in 2..7 : hex.chars[i] \in
           {"0", "1", "2", "3", "4", "5", "6", "7", "8", "9", "a", "b", "c",
            "d", "e", "f", "A", "B", "C", "D", "E", "F"}
ByteOf(hex, k) ==
    LET v == [c \in {"1", "a", "F"} |->
                 IF c = "1" THEN 1 ELSE IF c = "a" THEN 10 ELSE 15]
    IN 16 * v[hex.chars[2 * k]] + v[hex.chars[2 * k + 1]]
Decimal(n) ==
    LET d == <<"0", "1", "2", "3", "4", "5", "6", "7", "8", "9">>
    IN IF n >= 100
       THEN <<d[(n \div 100) + 1], d[((n \div 10) % 10) + 1], d[(n % 10) + 1]>>
       ELSE IF n >= 10 THEN <<d[(n \div 10) + 1], d[(n % 10) + 1]>>
       ELSE <<d[n + 1]>>
C15_HexToRgbTotal ==
    hexOutput # NotCalled =>
        /\ hexOutput.raised = "none"
        /\ hexOutput.value =
              IF SixDigitColour(hexInput)
              THEN Decimal(ByteOf(hexInput, 1)) \o <<",">>
                   \o Decimal(ByteOf(hexInput, 2)) \o <<",">>
                   \o Decimal(ByteOf(hexInput, 3))
              ELSE <<"0", ",", "0", ",", "0">>

\* hexToRgb returned the bytes of "#1aFF1a": 26, 255, 26
C15_Witness ==
    /\ hexInput = StringValue(<<"#", "1", "a", "F", "F", "1", "a">>)
    /\ hexOutput = Returned(<<"2", "6", ",", "2", "5", "5", ",", "2", "6">>)

\* hexToRgb returned the fallback for six digits without the hash sign
C15_NoHashWitness ==
    /\ hexInput = StringValue(<<"1", "a", "F", "F", "1", "a">>)
    /\ hexOutput = Returned(<<"0", ",", "0", ",", "0">>)

\* C13: whatever page elements are absent, init completes without raising,
\* and exactly the features whose elements are present are set up.
ExpectedFeatures ==
    {"setupSmoothScroll", "setupThemeObserver"}
        \cup (IF {"navToggle", "navLinks"} \subseteq present
              THEN {"setupMobileMenu"} ELSE {})
        \cup (IF "customCursor" \in present THEN {"setupCustomCursor"} ELSE {})
        \cup (IF "contactForm" \in present THEN {"setupFormValidation"} ELSE {})
        \cup (IF hasThemeToggle THEN {"setupThemeToggle"} ELSE {})
        \cup (IF variant = "part000" /\ "techStack" \in present
              THEN {"setupTechStackSlider"} ELSE {})
        \cup (IF variant = "part000" /\ "repoList" \in present
              THEN {"fetchGitHubRepos"} ELSE {})
C13_AbsentElementsAreNoOps ==
    phase # "loading" =>
        /\ initError = "none"
        /\ listeners = ExpectedFeatures
        /\ observerCreated = (nSec > 0)

\* the same on a host that has the watcher and readable storage
C13_OnHealthyHost ==
    (hasIO /\ ~storageThrows) => C13_AbsentElementsAreNoOps

\* C19: from a closed menu, after any clicks on the menu toggle and on
\* anchors, the four pieces of menu state agree, and right after a click on
\* an anchor whose target exists the menu is closed.
C19_MenuStateAgrees ==
    /\ navLinksOpen = navToggleOpen
    /\ navToggleOpen = bodyNoScroll
    /\ bodyNoScroll = ariaExpanded
    /\ scrolledLast # "no" => ~navLinksOpen

\* an anchor click scrolled to its target and closed the open menu
C19_Witness ==
    /\ scrolledLast = "closed"
    /\ ~navLinksOpen /\ ~navToggleOpen /\ ~ariaExpanded /\ ~bodyNoScroll

\* the menu is open, after a click that was no anchor click to a target
C19_OpenWitness ==
    navLinksOpen /\ navToggleOpen /\ ariaExpanded /\ bodyNoScroll

\* C20: after a theme toggle whose storage write succeeded the stored key
\* names the theme the body shows; a page load after that shows the same
\* theme; a toggle whose storage write fails still flips the body class;
\* no toggle lets an error escape.
C20_ThemePersists ==
    /\ lastToggle.stored = "ok" =>
          /\ (storedTheme = "light-mode") = bodyLight
          /\ (storedTheme = "dark-mode") = ~bodyLight
    /\ (expectLight # "none" /\ phase # "loading" /\ lastToggle = NoToggle)
          => ThemeName(bodyLight) = expectLight
    /\ lastToggle.stored = "failed" => lastToggle.after # lastToggle.before
    /\ lastToggle.escaped = "none"

\* the page was left in light mode and shows light mode when loaded again
C20_Witness ==
    /\ expectLight = "light" /\ phase = "ready" /\ lastToggle = NoToggle
    /\ bodyLight /\ storedTheme = "light-mode"

\* the page was left in dark mode after a toggle and is loaded again
C20_DarkWitness ==
    /\ expectLight = "dark" /\ phase = "ready" /\ lastToggle = NoToggle
    /\ ~bodyLight /\ storedTheme = "dark-mode"

\* a toggle whose storage write failed
C20_FailedWriteWitness ==
    lastToggle.stored = "failed" /\ bodyLight /\ storedTheme # "light-mode"

\* C14: once the page is set up, a step that changes the state of the
\* reveal engine (a callback) changes neither the body class, the stored
\* theme nor the menu, and a step of a sibling feature (theme, menu, anchor,
\* repository list) changes neither the watched sections, the classes and
\* delays of the elements, nor the elements a reveal of a watched section
\* will assign.
EngineStep ==
    \/ classList' # classList
    \/ animationDelay' # animationDelay
    \/ observed' # observed
    \/ prevState' # prevState
SiblingStep ==
    \/ bodyLight' # bodyLight
    \/ storedTheme' # storedTheme
    \/ themeControl' # themeControl
    \/ MenuState' # MenuState
    \/ scrolledLast' # scrolledLast
    \/ lastToggle' # lastToggle
    \/ inDom' # inDom
C14_Frame ==
    (phase # "loading" /\ phase' # "loading") =>
        /\ EngineStep =>
              UNCHANGED <<bodyLight, storedTheme, themeControl, navLinksOpen,
                          navToggleOpen, ariaExpanded, bodyNoScroll>>
        /\ SiblingStep =>
              /\ UNCHANGED <<observed, classList, animationDelay>>
              /\ \A s \in observed : \A e \in Elems :
                     Encloses(s, home[e]) => inDom'[e] = inDom[e]
C14_SiblingsIndependent == [][C14_Frame]_vars

\* the same without the steps that attach or detach an element
C14_FrameButDom == [][(inDom' = inDom) => C14_Frame]_vars

\* C21: whatever the interleaving of mousemove events and frame callbacks,
\* the host holds at most one frame request of the cursor at any time; a
\* frame callback that runs sets the transform of the cursor to the
\* position of the most recent mousemove and clears the pending marker;
\* and, the host running its frames, a pending request leads to a state
\* where none is pending and the cursor is shown where the pointer was
\* last reported.
FrameRan ==
    frameCallbacks' # frameCallbacks /\ frameCallbacks' \subseteq frameCallbacks
ShownAtPointer == transform = Translate(pointerAt[1], pointerAt[2])
C21_CursorFollowsPointer ==
    /\ [](Cardinality(frameCallbacks) <= 1)
    /\ [][FrameRan => /\ transform' = Translate(pointerAt[1], pointerAt[2])
                      /\ rafId' = NoFrame
                      /\ frameCallbacks' = {}]_vars
    /\ (frameCallbacks # {}) ~> (frameCallbacks = {} /\ ShownAtPointer)

\* a frame callback ran after two mousemoves, the first of which was never
\* shown, and the cursor is away from the origin
C21_Witness ==
    /\ skipped
    /\ rafId = NoFrame
    /\ frameCallbacks = {}
    /\ ShownAtPointer
    /\ pointerAt # <<0, 0>>

\* a mousemove arrived while a frame was pending and moved the pointer
\* away from where the cursor is shown
C21_CoalescedWitness ==
    /\ movesPending = 2
    /\ Cardinality(frameCallbacks) = 1
    /\ transform.fn = "translate"
    /\ ~ShownAtPointer

\* C22: every submit of the contact form has its default submission
\* prevented; the form is reset, with the success message, only if name,
\* email and message are all non-empty and the email is made of one or
\* more characters other than white space and '@', then '@', then one or
\* more such characters, then '.', then one or more such characters; a
\* rejected submit leaves the fields of the form unchanged.
NonEmpty(v) == v.kind = "string" /\ v.chars # <<>>
WellFormedEmail(cs) ==
    \E i, j \in 1..Len(cs) :
        /\ 1 < i
        /\ i + 1 < j
        /\ j < Len(cs)
        /\ cs[i] = "@"
        /\ cs[j] = "."
        /\ \A k \in 1..Len(cs) : k # i => cs[k] \notin {" ", "@"}
Acceptable(f) ==
    /\ NonEmpty(f["name"])
    /\ NonEmpty(f["email"])
    /\ NonEmpty(f["message"])
    /\ WellFormedEmail(f["email"].chars)
SubmitStep == formOutcome' # "none"
C22_Frame ==
    SubmitStep =>
        /\ defaultPrevented'
        /\ (formOutcome' = "thank you" \/ formFields' # formFields)
               => Acceptable(formFields)
        /\ formOutcome' # "thank you" => formFields' = formFields
C22_SubmitValidated == [][C22_Frame]_vars

\* a submit was accepted and the form reset
C22_Witness ==
    /\ formOutcome = "thank you"
    /\ defaultPrevented
    /\ formFields = EmptyForm

\* a submit with the three fields filled was rejected for its email
\* address, which is still in the form
C22_RejectedWitness ==
    /\ formOutcome = "enter a valid email"
    /\ defaultPrevented
    /\ Len(formFields["email"].chars) = MaxEmailLen

\* a submit was rejected for a field left empty
C22_EmptyFieldWitness ==
    /\ formOutcome = "fill in all fields"
    /\ defaultPrevented
    /\ formFields["name"] = StringValue(<<>>)
    /\ WellFormedEmail(formFields["email"].chars)

====
